---- MODULE Spec2Model ----
(***************************************************************************)
(* Model of switchy/apps/players.py: the PlayRec application.  Each call   *)
(* has an outbound leg (the caller, created by the originator) and an      *)
(* inbound leg (the callee).  The host delivers the events of one leg in   *)
(* the order they were produced; events of different legs are handled in   *)
(* any order.  Every handler is one atomic action in Spec; SpecConc splits *)
(* the RECORD_STOP handler into its steps and SpecAns the inbound          *)
(* CHANNEL_ANSWER handler; SpecStray adds a RECORD_STOP the application    *)
(* did not cause; SpecDur applies __setduration__.                         *)
(* Times are in hundredths of a second.                                    *)
(***************************************************************************)
EXTENDS Integers, Sequences, FiniteSets, TLC

\* ---- bounds -------------------------------------------------------------
NumCalls == 2          \* calls the originator places
MaxRate == 2           \* largest rec_rate configured
MaxIter == 2           \* largest iterations configured
MaxClipQ == 17         \* longest clip_length tried, in quarters of a second
MaxDurQ == 40          \* longest duration tried, in quarters of a second

\* ---- program constants --------------------------------------------------
DefaultTail == 100     \* self.tail = 1.0
HangupDelay == 50      \* sess.sched_hangup(0.5)
DefaultClipLength == 425   \* clip_length=4.25
MinTail == 100         \* if self.tail < 1.0: self.tail = 1.0

Calls == 1..NumCalls
Dirs == {"in", "out"}
None == -1
Audiofile == "audiofile"     \* self.audiofile
Silence == "silence"         \* self.silence
Host == "host"               \* self.host

VARIABLES
    started,      \* number of calls originated so far
    rec_rate,     \* self.rec_rate
    iterations,   \* self.iterations
    tail,         \* self.tail
    callback,     \* TRUE iff self.callback is a function
    clip_length,  \* self.clip_length
    duration,     \* the value last passed to __setduration__ (None before)
    local_count,  \* per call: the local `count` of a running on_answer (SpecAns)
    call_count,   \* self.call_count
    call2recs,    \* self.call2recs: call uuid -> {'caller': path, 'callee': path}
    cvars,        \* sess.call.vars of each call
    clip,         \* sess.vars['clip'] of each leg ("none" when the key is absent)
    recorded,     \* sess.vars['recorded'] of each leg ("unset" when absent)
    queue,        \* events produced for each leg and not yet handled
    playing,      \* what the host is playing on each leg
    recording,    \* whether the host is recording each leg
    cmds,         \* commands issued to each leg, in order
    delivered,    \* RecInfo tuples passed to self.callback, per call
    raised,       \* exceptions raised by handlers, per call
    answered,     \* calls in the order their inbound CHANNEL_ANSWER was handled
    handled,      \* per leg: events handled so far, in order, with the clip tag seen
    pc            \* per leg: position inside a RECORD_STOP handler (SpecConc)

vars == <<started, rec_rate, iterations, tail, callback, clip_length, duration,
          local_count, call_count, call2recs,
          cvars, clip, recorded, queue, playing, recording, cmds, delivered,
          raised, answered, handled, pc>>

\* what no event handler run in one piece changes
appvars == <<rec_rate, iterations, tail, callback, clip_length, duration, local_count>>

Peer(d) == IF d = "in" THEN "out" ELSE "in"
is_inbound(d) == d = "in"
is_outbound(d) == d = "out"
Uuid(c, d) == <<c, d>>
Ev(t, f) == [type |-> t, fp |-> f]

\* '{}/callee_{}.wav'.format(self.recsdir, sess.uuid)
CalleePath(c, d) == <<"callee", Uuid(c, d)>>
\* '{}/caller_{}.wav'.format(self.recsdir, sess.uuid)
CallerPath(c, d) == <<"caller", Uuid(c, d)>>

\* ---- the leg handle (host side) -----------------------------------------
\* The host state a handler acts on, threaded through the commands it issues.
HostState == [queue |-> queue, playing |-> playing, recording |-> recording,
              cmds |-> cmds]

Emit(h, c, d, e) == [h EXCEPT !.queue[c][d] = Append(@, e)]
Log(h, c, d, cmd) == [h EXCEPT !.cmds[c][d] = Append(@, cmd)]

\* sess.answer(): the callee answers, both legs of the bridge get CHANNEL_ANSWER
answer(h, c, d) ==
    Emit(Emit(Log(h, c, d, <<"answer">>), c, d, Ev("CHANNEL_ANSWER", "")),
         c, Peer(d), Ev("CHANNEL_ANSWER", ""))

\* sess.start_record(path)
start_record(h, c, d, path) ==
    LET h1 == Log(h, c, d, <<"start_record", path>>)
        h2 == [h1 EXCEPT !.recording[c][d] = TRUE]
    IN  Emit(h2, c, d, Ev("RECORD_START", "rec"))

\* sess.stop_record(delay): RECORD_STOP only for a leg that is being recorded
stop_record(h, c, d, delay) ==
    LET h1 == Log(h, c, d, <<"stop_record", delay>>)
    IN  IF h1.recording[c][d]
        THEN Emit([h1 EXCEPT !.recording[c][d] = FALSE], c, d, Ev("RECORD_STOP", "rec"))
        ELSE h1

\* sess.playback(fp)
playback(h, c, d, fp) ==
    LET h1 == Log(h, c, d, <<"playback", fp>>)
        h2 == [h1 EXCEPT !.playing[c][d] = fp]
    IN  Emit(h2, c, d, Ev("PLAYBACK_START", fp))

\* sess.breakapp(): stops the application running on the leg, if any
breakapp(h, c, d) ==
    LET h1 == Log(h, c, d, <<"breakapp">>)
    IN  IF h1.playing[c][d] # "none"
        THEN Emit([h1 EXCEPT !.playing[c][d] = "none"], c, d,
                  Ev("PLAYBACK_STOP", h1.playing[c][d]))
        ELSE h1

\* sess.sched_hangup(delay): fire and forget
sched_hangup(h, c, d, delay) == Log(h, c, d, <<"sched_hangup", delay>>)

ApplyHost(h) ==
    /\ queue' = h.queue
    /\ playing' = h.playing
    /\ recording' = h.recording
    /\ cmds' = h.cmds

\* ---- event dispatch -----------------------------------------------------
Idle(c, d) == pc[c][d] = "idle"

\* the next event of leg (c, d) is of type t and no handler of that leg is running
Next_is(c, d, t) ==
    /\ Idle(c, d)
    /\ queue[c][d] # <<>>
    /\ Head(queue[c][d]).type = t

\* the host state once the event is taken off the leg's queue
Taken(c, d) == [HostState EXCEPT !.queue[c][d] = Tail(@)]

Handled(c, d) ==
    handled' = [handled EXCEPT ![c][d] =
                   Append(@, [type |-> Head(queue[c][d]).type, clip |-> clip[c][d]])]

\* ---- the application -------------------------------------------------------
NoVars == [record |-> FALSE, iterations |-> None, tail |-> None,
           playback_count |-> None, noautohangup |-> FALSE]

EmptyRecs == [k \in {} |-> <<>>]

\* mutant: the recordings are not keyed by the call
SetRec_shared(recs, c, key, filename) ==
    LET old == IF 1 \in DOMAIN recs THEN recs[1] ELSE EmptyRecs
    IN  (1 :> ((key :> filename) @@ old)) @@ recs

\* self.call2recs.setdefault(uuid, {})[key] = filename
SetRec(recs, c, key, filename) ==
    LET old == IF c \in DOMAIN recs THEN recs[c] ELSE EmptyRecs
    IN  (c :> ((key :> filename) @@ old)) @@ recs

\* mutant: the test is inverted
ShouldRecord_negated(count, rate) == count % rate # 0

\* mutant: the first call of a window is taken
ShouldRecord_first(count, rate) == count % rate = 1 % rate

\* if not (count % rate)
ShouldRecord(count, rate) == count % rate = 0

\* mutant: the clip tag is not looked at
IsSignal_any(c, d) == TRUE

\* if sess.vars['clip'] == 'signal'
IsSignal(c, d) == clip[c][d] = "signal"

\* mutant: off by one
MoreClips_le(count, iters) == count <= iters

\* if vars['playback_count'] < vars['iterations']
MoreClips(count, iters) == count < iters

\* mutant: the peer's flag is not consulted
PeerRecorded_ignored(c, d) == TRUE

\* sess.call.get_peer(sess).vars.get('recorded', True)
PeerRecorded(c, d) == recorded[c][Peer(d)] # "false"

\* mutant: the two paths are passed in the wrong order
RecInfo_swapped(recs) == <<Host, recs["callee"], recs["caller"]>>

\* RecInfo(self.host, recs['caller'], recs['callee'])
RecInfo(recs) == <<Host, recs["caller"], recs["callee"]>>

\* CHANNEL_CREATE
on_create(c, d) ==
    /\ Next_is(c, d, "CHANNEL_CREATE")
    /\ Handled(c, d)
    /\ ApplyHost(Taken(c, d))
    /\ cvars' = IF is_outbound(d)
                THEN [cvars EXCEPT ![c].noautohangup = TRUE]
                ELSE cvars
    /\ UNCHANGED <<started, appvars, call_count, call2recs, clip, recorded,
                   delivered, raised, answered, pc>>

\* CHANNEL_PARK
on_park(c, d) ==
    /\ Next_is(c, d, "CHANNEL_PARK")
    /\ Handled(c, d)
    /\ ApplyHost(IF is_inbound(d) THEN answer(Taken(c, d), c, d) ELSE Taken(c, d))
    /\ UNCHANGED <<started, appvars, call_count, call2recs, cvars, clip, recorded,
                   delivered, raised, answered, pc>>

\* mutant: the call's vars are reset when the playback is triggered
trigger_vars_clear(cv, c) == [cv EXCEPT ![c].playback_count = 0, ![c].record = FALSE]

\* mutant: the clip is started at once, without the bounce over the peer
trigger_host_direct(h, c, d) == playback(playback(h, c, Peer(d), Silence), c, d, Audiofile)

\* mutant: the silence is started on the session itself
trigger_host_self(h, c, d) == playback(h, c, d, Silence)

\* trigger_playback(sess): the host state, clip tags and call vars it leaves
trigger_host(h, c, d) == playback(h, c, Peer(d), Silence)
trigger_clip(cl, c, d) == [cl EXCEPT ![c][Peer(d)] = "silence"]
trigger_vars(cv, c) == [cv EXCEPT ![c].playback_count = 0]

\* CHANNEL_ANSWER on the inbound leg
on_answer_inbound(c, d) ==
    LET count == call_count + 1
        rate == rec_rate
        filename == CalleePath(c, d)
        rec == ShouldRecord(count, rate)
        cv1 == IF rec THEN [cvars EXCEPT ![c].record = TRUE] ELSE cvars
    IN  /\ ApplyHost(IF rec THEN start_record(Taken(c, d), c, d, filename)
                            ELSE Taken(c, d))
        /\ call2recs' = IF rec THEN SetRec(call2recs, c, "callee", filename)
                               ELSE call2recs
        /\ call_count' = IF rec THEN 0 ELSE count
        /\ cvars' = [cv1 EXCEPT ![c].iterations = iterations, ![c].tail = tail]
        /\ answered' = Append(answered, c)
        /\ UNCHANGED clip

\* mutant: the playback is triggered although the call is being recorded
on_answer_outbound_both(c, d) ==
    LET filename == CallerPath(c, d)
    IN  IF cvars[c].record
        THEN /\ ApplyHost(trigger_host(start_record(Taken(c, d), c, d, filename), c, d))
             /\ call2recs' = SetRec(call2recs, c, "caller", filename)
             /\ clip' = trigger_clip(clip, c, d)
             /\ cvars' = trigger_vars(cvars, c)
             /\ UNCHANGED <<call_count, answered>>
        ELSE /\ ApplyHost(trigger_host(Taken(c, d), c, d))
             /\ clip' = trigger_clip(clip, c, d)
             /\ cvars' = trigger_vars(cvars, c)
             /\ UNCHANGED <<call_count, call2recs, answered>>

\* CHANNEL_ANSWER on the outbound leg
on_answer_outbound(c, d) ==
    LET filename == CallerPath(c, d)
    IN  IF cvars[c].record
        THEN /\ ApplyHost(start_record(Taken(c, d), c, d, filename))
             /\ call2recs' = SetRec(call2recs, c, "caller", filename)
             /\ UNCHANGED <<call_count, cvars, answered, clip>>
        ELSE /\ ApplyHost(trigger_host(Taken(c, d), c, d))
             /\ clip' = trigger_clip(clip, c, d)
             /\ cvars' = trigger_vars(cvars, c)
             /\ UNCHANGED <<call_count, call2recs, answered>>

\* CHANNEL_ANSWER
on_answer(c, d) ==
    /\ Next_is(c, d, "CHANNEL_ANSWER")
    /\ Handled(c, d)
    /\ IF is_inbound(d) THEN on_answer_inbound(c, d) ELSE on_answer_outbound(c, d)
    /\ UNCHANGED <<started, appvars, recorded, delivered, raised, pc>>

\* PLAYBACK_START
on_play(c, d) ==
    LET fp == Head(queue[c][d]).fp
    IN  /\ Next_is(c, d, "PLAYBACK_START")
        /\ Handled(c, d)
        /\ IF fp = Audiofile
           THEN /\ clip' = [clip EXCEPT ![c][d] = "signal"]
                /\ ApplyHost(Taken(c, d))
           ELSE IF fp = Silence
           THEN /\ clip' = [clip EXCEPT ![c][d] = "silence"]
                /\ ApplyHost(playback(breakapp(Taken(c, d), c, Peer(d)),
                                      c, Peer(d), Audiofile))
           ELSE /\ ApplyHost(Taken(c, d))
                /\ UNCHANGED clip
        /\ UNCHANGED <<started, appvars, call_count, call2recs, cvars, recorded,
                       delivered, raised, answered, pc>>

\* mutant: the record test is inverted
on_stop_host_inverted(h, c, d, v) ==
    IF MoreClips(v.playback_count, v.iterations)
    THEN playback(h, c, d, Silence)
    ELSE IF ~v.record
         THEN stop_record(breakapp(stop_record(h, c, d, v.tail), c, Peer(d)),
                          c, Peer(d), v.tail)
         ELSE sched_hangup(h, c, d, HangupDelay)

\* the commands of on_stop once the clip played was the signal
on_stop_host(h, c, d, v) ==
    IF MoreClips(v.playback_count, v.iterations)
    THEN playback(h, c, d, Silence)
    ELSE IF v.record
         THEN stop_record(breakapp(stop_record(h, c, d, v.tail), c, Peer(d)),
                          c, Peer(d), v.tail)
         ELSE sched_hangup(h, c, d, HangupDelay)

\* PLAYBACK_STOP
on_stop(c, d) ==
    /\ Next_is(c, d, "PLAYBACK_STOP")
    /\ Handled(c, d)
    /\ IF clip[c][d] = "none"
       THEN \* sess.vars['clip'] raises KeyError
            /\ raised' = [raised EXCEPT ![c] = @ \cup {"KeyError: clip"}]
            /\ ApplyHost(Taken(c, d))
            /\ UNCHANGED cvars
       ELSE IF IsSignal(c, d)
       THEN IF cvars[c].playback_count = None \/ cvars[c].iterations = None
            THEN \* vars['playback_count'] or vars['iterations'] raises KeyError
                 /\ raised' = [raised EXCEPT ![c] = @ \cup {"KeyError: vars"}]
                 /\ cvars' = IF cvars[c].playback_count = None THEN cvars
                             ELSE [cvars EXCEPT ![c].playback_count = @ + 1]
                 /\ ApplyHost(Taken(c, d))
            ELSE LET v == [cvars[c] EXCEPT !.playback_count = @ + 1]
                 IN  /\ cvars' = [cvars EXCEPT ![c] = v]
                     /\ ApplyHost(on_stop_host(Taken(c, d), c, d, v))
                     /\ UNCHANGED raised
       ELSE /\ ApplyHost(Taken(c, d))
            /\ UNCHANGED <<cvars, raised>>
    /\ UNCHANGED <<started, appvars, call_count, call2recs, clip, recorded,
                   delivered, answered, pc>>

\* RECORD_START
on_rec(c, d) ==
    /\ Next_is(c, d, "RECORD_START")
    /\ Handled(c, d)
    /\ recorded' = [recorded EXCEPT ![c][d] = "false"]
    /\ IF is_outbound(d)
       THEN /\ ApplyHost(trigger_host(Taken(c, d), c, d))
            /\ clip' = trigger_clip(clip, c, d)
            /\ cvars' = trigger_vars(cvars, c)
       ELSE /\ ApplyHost(Taken(c, d))
            /\ UNCHANGED <<clip, cvars>>
    /\ UNCHANGED <<started, appvars, call_count, call2recs, delivered, raised,
                   answered, pc>>

\* on_recstop from "if the far end has finished recording" on: lines 231-239
recstop_finish(c, d, h) ==
    /\ ApplyHost(sched_hangup(h, c, d, HangupDelay))
    /\ IF c \notin DOMAIN call2recs
       THEN \* self.call2recs[sess.call.uuid] raises KeyError
            /\ raised' = [raised EXCEPT ![c] = @ \cup {"KeyError: call2recs"}]
            /\ UNCHANGED delivered
       ELSE IF ~callback
       THEN UNCHANGED <<delivered, raised>>
       ELSE IF "caller" \notin DOMAIN call2recs[c]
       THEN /\ raised' = [raised EXCEPT ![c] = @ \cup {"KeyError: caller"}]
            /\ UNCHANGED delivered
       ELSE IF "callee" \notin DOMAIN call2recs[c]
       THEN /\ raised' = [raised EXCEPT ![c] = @ \cup {"KeyError: callee"}]
            /\ UNCHANGED delivered
       ELSE /\ delivered' = [delivered EXCEPT ![c] = Append(@, RecInfo(call2recs[c]))]
            /\ UNCHANGED raised

\* RECORD_STOP, handled in one piece
on_recstop(c, d) ==
    /\ Next_is(c, d, "RECORD_STOP")
    /\ Handled(c, d)
    /\ recorded' = [recorded EXCEPT ![c][d] = "true"]
    /\ IF PeerRecorded(c, d)
       THEN recstop_finish(c, d, Taken(c, d))
       ELSE /\ ApplyHost(Taken(c, d))
            /\ UNCHANGED <<delivered, raised>>
    /\ UNCHANGED <<started, appvars, call_count, call2recs, cvars, clip,
                   answered, pc>>

\* ---- the environment ------------------------------------------------------
\* nothing more can happen to call c
Quiescent(c) ==
    \A d \in Dirs : queue[c][d] = <<>> /\ playing[c][d] # Audiofile /\ Idle(c, d)

\* the originator places the next call: the outbound leg is created, the call
\* comes back as an inbound leg, which is created and parked.  It paces itself
\* so that only the latest call it placed may still be in progress.
Originate ==
    /\ started < NumCalls
    /\ \A c \in 1..(started - 1) : Quiescent(c)
    /\ started' = started + 1
    /\ queue' = [queue EXCEPT
           ![started + 1]["out"] = <<Ev("CHANNEL_CREATE", "")>>,
           ![started + 1]["in"] = <<Ev("CHANNEL_CREATE", ""), Ev("CHANNEL_PARK", "")>>]
    /\ UNCHANGED <<appvars, call_count, call2recs, cvars, clip, recorded, playing,
                   recording, cmds, delivered, raised, answered, handled, pc>>

\* the reference clip has been played to its end on leg (c, d)
ClipEnds(c, d) ==
    /\ playing[c][d] = Audiofile
    /\ playing' = [playing EXCEPT ![c][d] = "none"]
    /\ queue' = [queue EXCEPT ![c][d] = Append(@, Ev("PLAYBACK_STOP", Audiofile))]
    /\ UNCHANGED <<started, appvars, call_count, call2recs, cvars, clip, recorded,
                   recording, cmds, delivered, raised, answered, handled, pc>>

\* the state prepost leaves, whatever the clip length
InitApp ==
    /\ started = 0
    /\ rec_rate \in 1..MaxRate
    /\ iterations \in 0..MaxIter
    /\ tail = DefaultTail
    /\ callback \in BOOLEAN
    /\ call_count = 0
    /\ call2recs = EmptyRecs
    /\ cvars = [c \in Calls |-> NoVars]
    /\ clip = [c \in Calls |-> [d \in Dirs |-> "none"]]
    /\ recorded = [c \in Calls |-> [d \in Dirs |-> "unset"]]
    /\ queue = [c \in Calls |-> [d \in Dirs |-> <<>>]]
    /\ playing = [c \in Calls |-> [d \in Dirs |-> "none"]]
    /\ recording = [c \in Calls |-> [d \in Dirs |-> FALSE]]
    /\ cmds = [c \in Calls |-> [d \in Dirs |-> <<>>]]
    /\ delivered = [c \in Calls |-> <<>>]
    /\ raised = [c \in Calls |-> {}]
    /\ answered = <<>>
    /\ handled = [c \in Calls |-> [d \in Dirs |-> <<>>]]
    /\ pc = [c \in Calls |-> [d \in Dirs |-> "idle"]]
    /\ duration = None
    /\ local_count = [c \in Calls |-> None]

Init == InitApp /\ clip_length = DefaultClipLength

Next ==
    \/ Originate
    \/ \E c \in Calls, d \in Dirs : ClipEnds(c, d)
    \/ \E c \in Calls, d \in Dirs : on_create(c, d)
    \/ \E c \in Calls, d \in Dirs : on_park(c, d)
    \/ \E c \in Calls, d \in Dirs : on_answer(c, d)
    \/ \E c \in Calls, d \in Dirs : on_play(c, d)
    \/ \E c \in Calls, d \in Dirs : on_stop(c, d)
    \/ \E c \in Calls, d \in Dirs : on_rec(c, d)
    \/ \E c \in Calls, d \in Dirs : on_recstop(c, d)

Spec == Init /\ [][Next]_vars

\* ---- RECORD_STOP handled step by step ---------------------------------------
\* line 217: sess.vars['recorded'] = True
recstop_write(c, d) ==
    /\ Next_is(c, d, "RECORD_STOP")
    /\ Handled(c, d)
    /\ ApplyHost(Taken(c, d))
    /\ recorded' = [recorded EXCEPT ![c][d] = "true"]
    /\ pc' = [pc EXCEPT ![c][d] = "wrote"]
    /\ UNCHANGED <<started, appvars, call_count, call2recs, cvars, clip,
                   delivered, raised, answered>>

\* line 230: the peer's flag is read
recstop_read(c, d) ==
    /\ pc[c][d] = "wrote"
    /\ pc' = [pc EXCEPT ![c][d] = IF PeerRecorded(c, d) THEN "finish" ELSE "idle"]
    /\ UNCHANGED <<started, appvars, call_count, call2recs, cvars, clip, recorded,
                   queue, playing, recording, cmds, delivered, raised, answered,
                   handled>>

\* lines 231-239: the hangup is scheduled and the callback invoked
recstop_fire(c, d) ==
    /\ pc[c][d] = "finish"
    /\ recstop_finish(c, d, HostState)
    /\ pc' = [pc EXCEPT ![c][d] = "idle"]
    /\ UNCHANGED <<started, appvars, call_count, call2recs, cvars, clip, recorded,
                   answered, handled>>

NextConc ==
    \/ Originate
    \/ \E c \in Calls, d \in Dirs : ClipEnds(c, d)
    \/ \E c \in Calls, d \in Dirs : on_create(c, d)
    \/ \E c \in Calls, d \in Dirs : on_park(c, d)
    \/ \E c \in Calls, d \in Dirs : on_answer(c, d)
    \/ \E c \in Calls, d \in Dirs : on_play(c, d)
    \/ \E c \in Calls, d \in Dirs : on_stop(c, d)
    \/ \E c \in Calls, d \in Dirs : on_rec(c, d)
    \/ \E c \in Calls, d \in Dirs : recstop_write(c, d)
    \/ \E c \in Calls, d \in Dirs : recstop_read(c, d)
    \/ \E c \in Calls, d \in Dirs : recstop_fire(c, d)

\* the handlers of the two legs of a call run concurrently
SpecConc == Init /\ [][NextConc]_vars

\* ---- what has happened so far ------------------------------------------------
RECURSIVE CountIf(_, _)
\* how many elements of the sequence s are in the set S
CountIf(s, S) ==
    IF s = <<>> THEN 0
    ELSE (IF Head(s) \in S THEN 1 ELSE 0) + CountIf(Tail(s), S)

ClipTags == {"none", "signal", "silence"}

\* events of type t handled on leg (c, d)
NumHandled(c, d, t) == CountIf(handled[c][d], [type : {t}, clip : ClipTags])
\* PLAYBACK_STOP events handled on leg (c, d) while its clip tag was tag
NumStops(c, d, tag) == CountIf(handled[c][d], [type : {"PLAYBACK_STOP"}, clip : {tag}])
\* commands of one kind issued to leg (c, d)
NumHangups(c, d) == CountIf(cmds[c][d], {<<"sched_hangup", HangupDelay>>})
NumSilence(c, d) == CountIf(cmds[c][d], {<<"playback", Silence>>})
IsStopRecord(cmd) == cmd[1] = "stop_record"
NumStopRecords(c, d) == Cardinality({i \in 1..Len(cmds[c][d]) : IsStopRecord(cmds[c][d][i])})
IsHangup(cmd) == cmd[1] = "sched_hangup"
AnyHangups(c, d) == Cardinality({i \in 1..Len(cmds[c][d]) : IsHangup(cmds[c][d][i])})

\* both legs of call c have had RECORD_START handled
BothRecording(c) == \A d \in Dirs : NumHandled(c, d, "RECORD_START") >= 1
RecStopsHandled(c) == NumHandled(c, "in", "RECORD_STOP") + NumHandled(c, "out", "RECORD_STOP")

\* ---- claims ---------------------------------------------------------------------

\* C1: in a record-enabled call whose two legs both had RECORD_START handled,
\* with handlers run one at a time and a callback configured, the callback has
\* been invoked once when both legs' RECORD_STOP have been handled and not at
\* all before: the first RECORD_STOP does not invoke it, the second does.
C1_OncePerCall ==
    \A c \in Calls :
        (callback /\ cvars[c].record /\ BothRecording(c)) =>
            Len(delivered[c]) = IF RecStopsHandled(c) = 2 THEN 1 ELSE 0

\* both orders of the two RECORD_STOP events have been taken: one call was
\* completed by its inbound leg, the other by its outbound leg
C1_Witness ==
    /\ callback
    /\ \E c1 \in Calls, c2 \in Calls :
          /\ BothRecording(c1) /\ RecStopsHandled(c1) = 2 /\ Len(delivered[c1]) = 1
          /\ BothRecording(c2) /\ RecStopsHandled(c2) = 2 /\ Len(delivered[c2]) = 1
          /\ NumHangups(c1, "in") = 1
          /\ NumHangups(c2, "out") = 1

\* C2: with the RECORD_STOP handlers of the two legs of a call interleaved step
\* by step, the callback is invoked at most once per call.
C2_AtMostOnce == \A c \in Calls : Len(delivered[c]) <= 1

\* C3: whenever a RECORD_STOP handler of a record-enabled call has invoked the
\* callback or scheduled the hangup, RECORD_STOP has been handled for both legs.
C3_BothFinished ==
    \A c \in Calls :
        (cvars[c].record /\ (delivered[c] # <<>> \/ \E d \in Dirs : AnyHangups(c, d) > 0))
            => \A d \in Dirs : NumHandled(c, d, "RECORD_STOP") >= 1

\* C4: whenever the callback is invoked for a call, the call's recordings hold a
\* caller and a callee path, the caller path is the one built from the uuid of
\* the call's outbound leg, the callee path the one built from the uuid of its
\* inbound leg, and they are passed as (host, caller, callee).
C4_Paths ==
    \A c \in Calls : \A i \in 1..Len(delivered[c]) :
        /\ c \in DOMAIN call2recs
        /\ DOMAIN call2recs[c] = {"caller", "callee"}
        /\ call2recs[c]["caller"] = <<"caller", <<c, "out">>>>
        /\ call2recs[c]["callee"] = <<"callee", <<c, "in">>>>
        /\ delivered[c][i] = <<Host, <<"caller", <<c, "out">>>>, <<"callee", <<c, "in">>>>>>

\* the callback has been invoked for two calls
C4_Witness == \A c \in Calls : Len(delivered[c]) = 1

\* ---- the rate gate -------------------------------------------------------------
\* the i-th answered inbound leg belongs to a call marked for recording
Marked(i) == cvars[answered[i]].record
Windows == Len(answered) \div rec_rate
Window(k) == ((k - 1) * rec_rate + 1)..(k * rec_rate)

\* C5: with inbound CHANNEL_ANSWER events handled one at a time, exactly one call
\* is marked for recording in each consecutive window of rec_rate answered
\* inbound legs, and call_count is 0 after each marked call.
C5_OnePerWindow ==
    /\ \A k \in 1..Windows : Cardinality({i \in Window(k) : Marked(i)}) = 1
    /\ (answered # <<>> /\ Marked(Len(answered))) => call_count = 0

\* a window of two calls and two windows of one call have been completed
C5_Witness == Len(answered) = 2 /\ rec_rate = 2 /\ Windows = 1 /\ call_count = 0

\* C6 as claimed: the marked call is the first call of its window.
C6_FirstInWindow ==
    \A i \in 1..Len(answered) : Marked(i) => (i - 1) % rec_rate = 0

\* C6 as amended: the marked call is the last call of its window.
C6_LastInWindow ==
    \A i \in 1..Len(answered) : Marked(i) => i % rec_rate = 0

\* with a period of 2, the second answered call is the marked one
C6_Witness == rec_rate = 2 /\ Len(answered) = 2 /\ Marked(2) /\ ~Marked(1)

\* ---- playback and teardown --------------------------------------------------------
\* completed plays of the reference clip reported for call c
SigStops(c) == NumStops(c, "in", "signal") + NumStops(c, "out", "signal")
\* Trigger has run for call c
Triggered(c) == cvars[c].playback_count # None
\* the PLAYBACK_STOP that ends the playback loop of call c has been handled
FinalStopHandled(c) ==
    /\ Triggered(c)
    /\ cvars[c].iterations # None
    /\ SigStops(c) >= 1
    /\ SigStops(c) >= cvars[c].iterations
\* the teardown of call c has been issued
Teardown(c) ==
    IF cvars[c].record
    THEN \E d \in Dirs : NumStopRecords(c, d) > 0
    ELSE \E d \in Dirs : AnyHangups(c, d) > 0

\* C7: a call that is not record-enabled never has the callback invoked, is never
\* sent a stop-record command, and has exactly one hangup scheduled, with a delay
\* of 0.5 s, by its final reference-clip PLAYBACK_STOP.
C7_NotRecorded ==
    \A c \in Calls : ~cvars[c].record =>
        /\ delivered[c] = <<>>
        /\ \A d \in Dirs : NumStopRecords(c, d) = 0
        /\ \A d \in Dirs : AnyHangups(c, d) = NumHangups(c, d)
        /\ NumHangups(c, "in") + NumHangups(c, "out")
               = IF FinalStopHandled(c) THEN 1 ELSE 0

\* an unrecorded call played the clip twice and was hung up
C7_Witness ==
    \E c \in Calls :
        /\ ~cvars[c].record /\ cvars[c].iterations = 2 /\ FinalStopHandled(c)
        /\ NumHangups(c, "out") + NumHangups(c, "in") = 1

\* C8: once Trigger has run, the teardown is issued by the first reference-clip
\* PLAYBACK_STOP at which the incremented count is not below the call's
\* iterations, once; every earlier one restarts silence on its own leg; with
\* iterations >= 1 the clip has been played exactly iterations times by then.
C8_PlayedIterations ==
    \A c \in Calls : (Triggered(c) /\ cvars[c].iterations # None) =>
        /\ Teardown(c) <=> FinalStopHandled(c)
        /\ (Teardown(c) /\ cvars[c].iterations >= 1) => SigStops(c) = cvars[c].iterations
        /\ \A d \in Dirs : NumStopRecords(c, d) <= 1 /\ AnyHangups(c, d) <= 1
        /\ NumSilence(c, "in") + NumSilence(c, "out")
               = 1 + SigStops(c) - (IF Teardown(c) THEN 1 ELSE 0)
        /\ NumSilence(c, "out") \in {NumStops(c, "out", "signal") - 1,
                                      NumStops(c, "out", "signal")}
        /\ NumSilence(c, "in") - 1 \in {NumStops(c, "in", "signal") - 1,
                                         NumStops(c, "in", "signal")}

\* a recorded and an unrecorded call were torn down after two plays
C8_Witness ==
    \E c \in Calls :
        /\ cvars[c].iterations = 2 /\ Teardown(c) /\ SigStops(c) = 2
        /\ NumSilence(c, "out") = 1 /\ NumSilence(c, "in") = 1
        /\ cvars[c].record

\* leg (c, d) handles an event of type t in this step
Handles(c, d, t) ==
    /\ Len(handled'[c][d]) = Len(handled[c][d]) + 1
    /\ Head(queue[c][d]).type = t

\* C9: a PLAYBACK_STOP handled on a leg whose clip tag is signal increases
\* playback_count by exactly one; one handled on a leg whose clip tag is silence
\* leaves the call's vars unchanged and issues no command to either leg.
C9_CountsSignalOnly ==
    [][\A c \in Calls, d \in Dirs : Handles(c, d, "PLAYBACK_STOP") =>
          /\ clip[c][d] = "signal" =>
                cvars'[c].playback_count = cvars[c].playback_count + 1
          /\ clip[c][d] = "silence" =>
                cvars'[c] = cvars[c] /\ cmds'[c] = cmds[c]]_vars

\* a silence stream was stopped after a clip had been counted
C9_Witness ==
    \E c \in Calls, d \in Dirs :
        /\ NumStops(c, d, "silence") >= 1
        /\ cvars[c].playback_count = 2

\* C10 as claimed: playback_count counts PLAYBACK_STOP events of the inbound leg
\* only.
C10_InboundOnly ==
    \A c \in Calls : Triggered(c) => cvars[c].playback_count = NumStops(c, "in", "signal")

\* C10 as amended: playback_count counts the PLAYBACK_STOP events of both legs
\* whose clip tag is signal; the clip is played on the outbound leg first and then
\* on the two legs in turn.
C10_BothLegsInTurn ==
    \A c \in Calls : Triggered(c) =>
        /\ cvars[c].playback_count = SigStops(c)
        /\ NumStops(c, "out", "signal") = (cvars[c].playback_count + 1) \div 2
        /\ NumStops(c, "in", "signal") = cvars[c].playback_count \div 2

\* the clip has been played on the outbound and then on the inbound leg
C10_Witness ==
    \E c \in Calls :
        /\ cvars[c].playback_count = 2
        /\ NumStops(c, "out", "signal") = 1 /\ NumStops(c, "in", "signal") = 1

\* ---- the two-hop bounce -----------------------------------------------------------
\* a playback of the reference clip is commanded on leg (c, d) in this step
StartsClip(c, d) ==
    /\ Len(cmds'[c][d]) > Len(cmds[c][d])
    /\ \E i \in (Len(cmds[c][d]) + 1)..Len(cmds'[c][d]) :
          cmds'[c][d][i] = <<"playback", Audiofile>>

\* C11: the two legs of a call never play the reference clip at the same time,
\* and a playback of the clip is commanded on a leg only by the handler of a
\* PLAYBACK_START of the silence stream on its peer, while that stream is running.
C11_NoDoubleClip ==
    /\ [](\A c \in Calls : ~(playing[c]["in"] = Audiofile /\ playing[c]["out"] = Audiofile))
    /\ [][\A c \in Calls, d \in Dirs : StartsClip(c, d) =>
             /\ Handles(c, Peer(d), "PLAYBACK_START")
             /\ Head(queue[c][Peer(d)]).fp = Silence
             /\ playing[c][Peer(d)] = Silence
             /\ playing'[c][Peer(d)] = Silence]_vars

\* the clip is being played on the inbound leg, in the second round of the loop,
\* while the outbound leg plays silence
C11_Witness ==
    \E c \in Calls :
        /\ playing[c]["in"] = Audiofile /\ playing[c]["out"] = Silence
        /\ cvars[c].playback_count = 1

\* ---- completion --------------------------------------------------------------------
\* C12: once the callback has been invoked for a call, self.call2recs holds no
\* entry for that call.
C12_Evicted ==
    \A c \in Calls : delivered[c] # <<>> => c \notin DOMAIN call2recs

\* C13, as what is left when nothing more can happen to a call: a hangup has been
\* scheduled for it and, if it is record-enabled and a callback is configured,
\* the callback has been invoked.
C13_Completes ==
    \A c \in 1..started : Quiescent(c) =>
        /\ \E d \in Dirs : AnyHangups(c, d) > 0
        /\ (cvars[c].record /\ callback) => delivered[c] # <<>>

\* C16: once both legs of a record-enabled call have had CHANNEL_ANSWER handled,
\* in either order, a start-record command has been issued on both legs and the
\* call's recordings hold the caller and the callee path.
C16_BothLegsRecorded ==
    \A c \in Calls :
        (cvars[c].record /\ \A d \in Dirs : NumHandled(c, d, "CHANNEL_ANSWER") = 1) =>
            /\ \A d \in Dirs : \E i \in 1..Len(cmds[c][d]) : cmds[c][d][i][1] = "start_record"
            /\ c \in DOMAIN call2recs
            /\ DOMAIN call2recs[c] = {"caller", "callee"}

\* ---- what a handler may change -----------------------------------------------------
\* C15: the record flag of a call changes only in the handler of the inbound
\* leg's CHANNEL_ANSWER, from unset to set, and never again; the call's
\* iterations and tail are written by that handler only, from the configuration.
C15_SetOnceAtAnswer ==
    [][\A c \in Calls :
          /\ cvars'[c].record # cvars[c].record =>
                Handles(c, "in", "CHANNEL_ANSWER") /\ ~cvars[c].record /\ cvars'[c].record
          /\ (cvars'[c].iterations # cvars[c].iterations \/ cvars'[c].tail # cvars[c].tail) =>
                /\ Handles(c, "in", "CHANNEL_ANSWER")
                /\ cvars'[c].iterations = iterations
                /\ cvars'[c].tail = tail]_vars

\* a record-enabled call has run to its end with the flag and the call length kept
C15_Witness ==
    \E c \in Calls :
        /\ cvars[c].record /\ cvars[c].iterations = 2 /\ cvars[c].tail = DefaultTail
        /\ RecStopsHandled(c) = 2

HasStartRecord(c, d) == \E i \in 1..Len(cmds[c][d]) : cmds[c][d][i][1] = "start_record"
NumPlaybacks(c, d) == Cardinality({i \in 1..Len(cmds[c][d]) : cmds[c][d][i][1] = "playback"})

\* C19: in a record-enabled call whose inbound CHANNEL_ANSWER was handled first,
\* the handler of the outbound CHANNEL_ANSWER only starts the recording of the
\* caller (it does not run trigger_playback), and no playback command is issued
\* on either leg before the outbound leg's RECORD_START has been handled.
C19_RecordBeforePlayback ==
    /\ [](\A c \in Calls :
            (/\ cvars[c].record
             /\ NumHandled(c, "out", "RECORD_START") = 0
             /\ (NumHandled(c, "out", "CHANNEL_ANSWER") = 0 \/ HasStartRecord(c, "out")))
            => /\ \A d \in Dirs : NumPlaybacks(c, d) = 0
               /\ ~Triggered(c))
    /\ [][\A c \in Calls :
            (Handles(c, "out", "CHANNEL_ANSWER") /\ cvars[c].record) =>
                /\ cmds'[c]["out"] = Append(cmds[c]["out"],
                                            <<"start_record", <<"caller", <<c, "out">>>>>>)
                /\ cmds'[c]["in"] = cmds[c]["in"]
                /\ cvars'[c] = cvars[c]
                /\ clip'[c] = clip[c]]_vars

\* the caller is being recorded, its RECORD_START is still to be handled
C19_Witness ==
    \E c \in Calls :
        /\ cvars[c].record /\ HasStartRecord(c, "out")
        /\ NumHandled(c, "out", "RECORD_START") = 0
        /\ NumHandled(c, "in", "RECORD_START") = 1

\* the recordings entry of call c ("absent" as the empty mapping)
RecsOf(c) == IF c \in DOMAIN call2recs THEN call2recs[c] ELSE EmptyRecs
\* leg (c, d) handles an event in this step
HandlesAny(c, d) == Len(handled'[c][d]) = Len(handled[c][d]) + 1

\* C20: the handler of an event of one call leaves the vars, clip tags, recorded
\* flags, recordings entry and callback deliveries of every other call unchanged
\* and issues no command and causes no event on the legs of another call.
C20_OtherCallsUntouched ==
    [][\A c \in Calls, d \in Dirs : HandlesAny(c, d) =>
          \A o \in Calls \ {c} :
              /\ cvars'[o] = cvars[o]
              /\ clip'[o] = clip[o]
              /\ recorded'[o] = recorded[o]
              /\ RecsOf(o)' = RecsOf(o)
              /\ delivered'[o] = delivered[o]
              /\ raised'[o] = raised[o]
              /\ cmds'[o] = cmds[o]
              /\ queue'[o] = queue[o]
              /\ playing'[o] = playing[o]
              /\ recording'[o] = recording[o]]_vars

\* two record-enabled calls are in progress at the same time
C20_Witness ==
    /\ \A c \in Calls : cvars[c].record /\ ~Quiescent(c) /\ c \in DOMAIN call2recs
    /\ \E c \in Calls : Triggered(c)

\* ---- the call length -----------------------------------------------------------------
ClipLengths == {25 * k : k \in 1..MaxClipQ}
Durations == {25 * k : k \in 0..MaxDurQ}

\* mutant: the tail is not raised to its minimum
Clamp_none(t) == t

\* if self.tail < 1.0: self.tail = 1.0
Clamp(t) == IF t < MinTail THEN MinTail ELSE t

\* __setduration__(value): divmod(value, self.clip_length)
setduration(value) ==
    /\ iterations' = value \div clip_length
    /\ tail' = Clamp(value % clip_length)
    /\ duration' = value
    /\ UNCHANGED <<started, rec_rate, callback, clip_length, local_count, call_count,
                   call2recs, cvars, clip, recorded, queue, playing, recording,
                   cmds, delivered, raised, answered, handled, pc>>

InitDur == InitApp /\ clip_length \in ClipLengths

NextDur == \E value \in Durations : setduration(value)

\* an originator sets its duration, for every clip length
SpecDur == InitDur /\ [][NextDur]_vars

\* what of the duration the whole clips leave
Remainder == duration - iterations * clip_length

\* C14 as claimed: iterations * clip_length + tail equals the duration and the
\* tail is at least 1.0; (10, 4.25) gives (2, 1.5) and (4, 4.25) gives (0, 4.0).
C14_SumEquals ==
    duration # None =>
        /\ iterations * clip_length + tail = duration
        /\ tail >= 100
        /\ (duration = 1000 /\ clip_length = 425) => (iterations = 2 /\ tail = 150)
        /\ (duration = 400 /\ clip_length = 425) => (iterations = 0 /\ tail = 400)

\* C14 as amended: iterations is the number of whole clips in the duration; the
\* tail is what they leave of it, and 1.0 when that is below 1.0, so that
\* iterations * clip_length + tail equals the duration in the first case and
\* exceeds it by less than 1.0 (at most 1.0 when nothing is left) in the second.
C14_SumOrClamped ==
    duration # None =>
        /\ tail >= 100
        /\ 0 <= Remainder /\ Remainder < clip_length
        /\ Remainder >= 100 => iterations * clip_length + tail = duration
        /\ Remainder < 100 =>
              /\ tail = 100
              /\ iterations * clip_length + tail > duration
              /\ iterations * clip_length + tail <= duration + 100
        /\ (duration = 1000 /\ clip_length = 425) => (iterations = 2 /\ tail = 150)
        /\ (duration = 400 /\ clip_length = 425) => (iterations = 0 /\ tail = 400)

\* a duration of 9.0 with the 4.25 clip: two clips, the 0.5 left is raised to 1.0
C14_Witness ==
    duration = 900 /\ clip_length = 425 /\ iterations = 2 /\ tail = 100

\* ---- a RECORD_STOP for a call that is not recorded ------------------------------------
\* RECORD_STOP events produced for, or handled on, leg (c, d)
NumRecStops(c, d) ==
    NumHandled(c, d, "RECORD_STOP")
        + CountIf(queue[c][d], {Ev("RECORD_STOP", "rec")})

\* the host reports the end of a recording that PlayRec did not start, on a leg
\* of a call that the rate gate has passed over
StrayRecordStop(c, d) ==
    /\ c \in 1..started
    /\ NumHandled(c, "in", "CHANNEL_ANSWER") = 1
    /\ ~cvars[c].record
    /\ NumRecStops(c, d) = 0
    /\ queue' = [queue EXCEPT ![c][d] = Append(@, Ev("RECORD_STOP", "rec"))]
    /\ UNCHANGED <<started, appvars, call_count, call2recs, cvars, clip, recorded,
                   playing, recording, cmds, delivered, raised, answered, handled, pc>>

NextStray ==
    \/ Next
    \/ \E c \in Calls, d \in Dirs : StrayRecordStop(c, d)

SpecStray == Init /\ [][NextStray]_vars

\* C17: a RECORD_STOP handled for a leg of a call that has no recordings entry is
\* a no-op: the callback is not invoked, the handler raises nothing and
\* schedules no hangup.
C17_NoOp ==
    \A c \in Calls :
        (c \notin DOMAIN call2recs /\ \E d \in Dirs : NumHandled(c, d, "RECORD_STOP") > 0) =>
            /\ delivered[c] = <<>>
            /\ raised[c] = {}
            /\ NumHangups(c, "in") + NumHangups(c, "out")
                   = IF FinalStopHandled(c) THEN 1 ELSE 0

\* ---- the inbound CHANNEL_ANSWER handled step by step -----------------------------------
\* line 113: self.call_count += 1
ans_incr(c) ==
    /\ Next_is(c, "in", "CHANNEL_ANSWER")
    /\ Handled(c, "in")
    /\ ApplyHost(Taken(c, "in"))
    /\ call_count' = call_count + 1
    /\ answered' = Append(answered, c)
    /\ pc' = [pc EXCEPT ![c]["in"] = "incremented"]
    /\ UNCHANGED <<started, appvars, call2recs, cvars, clip, recorded, delivered, raised>>

\* line 116: count, rate = self.call_count, self.rec_rate
ans_read(c) ==
    /\ pc[c]["in"] = "incremented"
    /\ local_count' = [local_count EXCEPT ![c] = call_count]
    /\ pc' = [pc EXCEPT ![c]["in"] = "read"]
    /\ UNCHANGED <<started, rec_rate, iterations, tail, callback, clip_length, duration,
                   call_count, call2recs, cvars, clip, recorded, queue, playing,
                   recording, cmds, delivered, raised, answered, handled>>

\* lines 119-123: the test, and the recording when it passes;
\* lines 127-128 when it does not
ans_test(c) ==
    /\ pc[c]["in"] = "read"
    /\ IF ShouldRecord(local_count[c], rec_rate)
       THEN /\ ApplyHost(start_record(HostState, c, "in", CalleePath(c, "in")))
            /\ call2recs' = SetRec(call2recs, c, "callee", CalleePath(c, "in"))
            /\ cvars' = [cvars EXCEPT ![c].record = TRUE]
            /\ pc' = [pc EXCEPT ![c]["in"] = "reset"]
       ELSE /\ cvars' = [cvars EXCEPT ![c].iterations = iterations, ![c].tail = tail]
            /\ pc' = [pc EXCEPT ![c]["in"] = "idle"]
            /\ UNCHANGED <<queue, playing, recording, cmds, call2recs>>
    /\ local_count' = [local_count EXCEPT ![c] = None]
    /\ UNCHANGED <<started, rec_rate, iterations, tail, callback, clip_length, duration,
                   call_count, clip, recorded, delivered, raised, answered, handled>>

\* line 124: self.call_count = 0, then lines 127-128
ans_reset(c) ==
    /\ pc[c]["in"] = "reset"
    /\ call_count' = 0
    /\ cvars' = [cvars EXCEPT ![c].iterations = iterations, ![c].tail = tail]
    /\ pc' = [pc EXCEPT ![c]["in"] = "idle"]
    /\ UNCHANGED <<started, appvars, call2recs, clip, recorded, queue, playing,
                   recording, cmds, delivered, raised, answered, handled>>

NextAns ==
    \/ Originate
    \/ \E c \in Calls, d \in Dirs : ClipEnds(c, d)
    \/ \E c \in Calls, d \in Dirs : on_create(c, d)
    \/ \E c \in Calls, d \in Dirs : on_park(c, d)
    \/ \E c \in Calls : on_answer(c, "out")
    \/ \E c \in Calls : ans_incr(c)
    \/ \E c \in Calls : ans_read(c)
    \/ \E c \in Calls : ans_test(c)
    \/ \E c \in Calls : ans_reset(c)
    \/ \E c \in Calls, d \in Dirs : on_play(c, d)
    \/ \E c \in Calls, d \in Dirs : on_stop(c, d)
    \/ \E c \in Calls, d \in Dirs : on_rec(c, d)
    \/ \E c \in Calls, d \in Dirs : on_recstop(c, d)

\* the inbound CHANNEL_ANSWER handlers of different calls run concurrently
SpecAns == Init /\ [][NextAns]_vars

\* C18: with the inbound CHANNEL_ANSWER handlers of different calls interleaved
\* step by step, once they have all returned no increment of call_count is lost
\* and one call per rec_rate answered inbound legs is marked for recording.
C18_GateUnderInterleaving ==
    (\A c \in Calls : Idle(c, "in")) =>
        /\ Cardinality({i \in 1..Len(answered) : Marked(i)}) = Len(answered) \div rec_rate
        /\ call_count = Len(answered) % rec_rate

====
